---- MODULE Spec2Model ----
(***************************************************************************)
(* Model of tauri-hotkey-rs: HotkeyManager (src/src/lib.rs) on top of the  *)
(* platform Listener (src/tauri-hotkey-sys/src/{windows,macos}.rs).        *)
(*                                                                         *)
(* Caller threads own one HotkeyManager each and run register,             *)
(* unregister, unregister_all and drop step by step; the steps are cut at  *)
(* the places where the code takes a lock or waits on a channel.  The      *)
(* Listener's worker thread serves the request channel, and the trigger    *)
(* dispatch path runs the handler stored for a native id.                  *)
(*                                                                         *)
(* parse_hotkey and Display for Hotkey are operators on strings; ParseSpec *)
(* is a caller that parses a string, displays the Hotkey and parses again. *)
(*                                                                         *)
(* ListenerSpec is a program that owns a Listener of its own, calls its    *)
(* register_hotkey and unregister_hotkey and drops it; the worker's        *)
(* DropThread handling is reached only there, GLOBAL_LISTENER being a      *)
(* static.                                                                 *)
(***************************************************************************)
EXTENDS Integers, Naturals, Sequences, FiniteSets, Bags, TLC

(* ------------------------------ bounds --------------------------------- *)

\* caller threads, each holding at most one HotkeyManager at a time
NumThreads == 2

\* HotkeyManager values created during a run (caps ID_COUNTER)
MaxManagers == 2

\* native ids the Listener hands out during a run (caps Listener.last_id)
MaxListenerIds == 2

\* pieces between '+' in the strings handed to parse_hotkey
MaxTokens == 3

(* --------------------------- hotkey values ----------------------------- *)

Platforms == {"windows", "macos"}

\* Modifier as u32: the modifiers:: constants of the two backends
ModifierCode(p, m) ==
  IF p = "windows"
    THEN CASE m = "ALT" -> 1 [] m = "ALTGR" -> 165 [] m = "CTRL" -> 2
           [] m = "SHIFT" -> 4 [] OTHER -> 8
    ELSE CASE m = "ALT" -> 2048 [] m = "ALTGR" -> 16384 [] m = "CTRL" -> 4096
           [] m = "SHIFT" -> 512 [] OTHER -> 256

\* Key as u32: keys::A, keys::B, keys::C, keys::P of the two backends
KeyCode(p, k) ==
  IF p = "windows"
    THEN CASE k = "A" -> 65 [] k = "B" -> 66 [] k = "C" -> 67 [] OTHER -> 80
    ELSE CASE k = "A" -> 0 [] k = "B" -> 11 [] k = "C" -> 8 [] OTHER -> 35

RECURSIVE BitOr(_, _)
\* bitwise OR of two naturals (the `|` of the folds in modifiers_as_flag / keys_as_flag)
BitOr(a, b) ==
  IF a = 0 THEN b
  ELSE IF b = 0 THEN a
  ELSE (IF (a % 2 = 1) \/ (b % 2 = 1) THEN 1 ELSE 0) + 2 * BitOr(a \div 2, b \div 2)

RECURSIVE FoldOr(_, _, _)
\* fold(0, |acc, x| acc | code(x)) over a Vec, left to right
FoldOr(codes, i, acc) ==
  IF i > Len(codes) THEN acc ELSE FoldOr(codes, i + 1, BitOr(acc, codes[i]))

modifiers_as_flag(p, h) ==
  FoldOr([i \in 1..Len(h.modifiers) |-> ModifierCode(p, h.modifiers[i])], 1, 0)

keys_as_flag(p, h) ==
  FoldOr([i \in 1..Len(h.keys) |-> KeyCode(p, h.keys[i])], 1, 0)

\* ListenerHotkey::new(hotkey.modifiers_as_flag(), hotkey.keys_as_flag())
ListenerHotkey(p, h) == <<modifiers_as_flag(p, h), keys_as_flag(p, h)>>

\* the Hotkey values the callers use: CTRL+C and the two-key CTRL+A"B
HotkeyC  == [modifiers |-> <<"CTRL">>, keys |-> <<"C">>]
HotkeyAB == [modifiers |-> <<"CTRL">>, keys |-> <<"A", "B">>]
Hotkeys == {HotkeyC, HotkeyAB}

\* placeholder where a record has no hotkey (a Hotkey always has a key)
NoHotkey == [modifiers |-> <<>>, keys |-> <<>>]

\* the closures handed to register: f touches no hotkey state, g calls
\* register or unregister of a HotkeyManager and gets as far as
\* GLOBAL_HOTKEY_MAP.lock()
Callbacks == {"f", "g"}

\* the closures that use the hotkey API themselves
Reentrant == {"g"}

\* Vec::contains
Contains(s, x) == \E i \in 1..Len(s) : s[i] = x

(* ----------------------- parse_hotkey and Display ---------------------- *)

\* a str is a string of characters; the character at index i
Char(s, i) == SubSeq(s, i, i)

LowerCase == "abcdefghijklmnopqrstuvwxyz"
UpperCase == "ABCDEFGHIJKLMNOPQRSTUVWXYZ"

\* char::to_uppercase on the characters the model uses
UpperChar(c) ==
  IF \E i \in 1..Len(LowerCase) : Char(LowerCase, i) = c
    THEN Char(UpperCase, CHOOSE i \in 1..Len(LowerCase) : Char(LowerCase, i) = c)
    ELSE c

RECURSIVE to_uppercase_from(_, _)
to_uppercase_from(s, i) ==
  IF i > Len(s) THEN "" ELSE UpperChar(Char(s, i)) \o to_uppercase_from(s, i + 1)

\* str::to_uppercase
to_uppercase(s) == to_uppercase_from(s, 1)

RECURSIVE split_from(_, _, _, _)
split_from(s, i, cur, acc) ==
  IF i > Len(s) THEN Append(acc, cur)
  ELSE IF Char(s, i) = "+" THEN split_from(s, i + 1, "", Append(acc, cur))
  ELSE split_from(s, i + 1, cur \o Char(s, i), acc)

\* str::split('+'): the pieces between the separators, empty ones included
split(s) == split_from(s, 1, "", <<>>)

\* str::trim: the string without its leading and trailing white space
trim(s) ==
  LET inked == {i \in 1..Len(s) : Char(s, i) # " "} IN
  IF inked = {} THEN ""
  ELSE SubSeq(s, CHOOSE i \in inked : \A j \in inked : i <= j,
                 CHOOSE i \in inked : \A j \in inked : j <= i)

\* the variants of enum Modifier (their Debug and EnumString names)
Modifiers == {"ALT", "ALTGR", "CTRL", "SHIFT", "SUPER"}

\* the variants of enum Key the target has (their Debug and EnumString names)
Keys(p) ==
  {"BACKSPACE", "TAB", "ENTER", "CAPSLOCK", "ESCAPE", "SPACE", "PAGEUP", "PAGEDOWN",
   "END", "HOME", "LEFT", "RIGHT", "UP", "DOWN", "PRINTSCREEN", "CLEAR", "DELETE",
   "SCROLLLOCK", "HELP", "VOLUMEMUTE", "VOLUMEDOWN", "VOLUMEUP",
   "F1", "F2", "F3", "F4", "F5", "F6", "F7", "F8", "F9", "F10", "F11", "F12",
   "NUMADD", "NUMSUB", "NUMMULT", "NUMDIV", "NUMDEC",
   "KEY_0", "KEY_1", "KEY_2", "KEY_3", "KEY_4", "KEY_5", "KEY_6", "KEY_7", "KEY_8",
   "KEY_9",
   "A", "B", "C", "D", "E", "F", "G", "H", "I", "J", "K", "L", "M", "N", "O", "P",
   "Q", "R", "S", "T", "U", "V", "W", "X", "Y", "Z",
   "EQUAL", "MINUS", "SINGLEQUOTE", "COMMA", "PERIOD", "SEMICOLON", "SLASH",
   "OPENQUOTE", "OPENBRACKET", "BACKSLASH", "CLOSEBRACKET"}
  \cup (IF p = "macos" THEN {}
        ELSE {"INSERT", "NUMLOCK", "MEDIANEXTTRACK", "MEDIAPREVIOUSTRACK", "MEDIASTOP",
              "MEDIAPLAYPAUSE", "LAUNCHMAIL"})

\* the result of a lookup that found nothing (None, Err)
NoName == "?none"

\* the first match of parse_hotkey: the modifier aliases, then Modifier::from_str
ModifierOf(p, token) ==
  IF token \in {"COMMAND", "CMD"} THEN "SUPER"
  ELSE IF token = "CONTROL" THEN "CTRL"
  ELSE IF p = "macos" /\ token = "OPTION" THEN "ALT"
  ELSE IF token \in {"COMMANDORCONTROL", "COMMANDORCTRL", "CMDORCTRL", "CMDORCONTROL"}
    THEN (IF p = "macos" THEN "SUPER" ELSE "CTRL")
  ELSE IF token \in Modifiers THEN token
  ELSE NoName

\* token.parse::<usize>().is_ok(): a non-empty string of decimal digits
\* (a leading '+' cannot be left by the split; the inputs are too short to overflow)
parses_usize(token) ==
  /\ Len(token) > 0
  /\ \A i \in 1..Len(token) : \E d \in 1..10 : Char("0123456789", d) = Char(token, i)

\* a purely numeric token is rewritten to KEY_n
Numbered(token) == IF parses_usize(token) THEN "KEY_" \o token ELSE token

\* the "shift conversions" match: the base key of a shifted symbol
ShiftConversion(token) ==
  CASE token = ")" -> "KEY_0" [] token = "!" -> "KEY_1" [] token = "@" -> "KEY_2"
    [] token = "#" -> "KEY_3" [] token = "$" -> "KEY_4" [] token = "%" -> "KEY_5"
    [] token = "^" -> "KEY_6" [] token = "&" -> "KEY_7" [] token = "*" -> "KEY_8"
    [] token = "(" -> "KEY_9" [] token = ":" -> "SEMICOLON" [] token = "<" -> "COMMA"
    [] token = ">" -> "PERIOD" [] token = "_" -> "MINUS" [] token = "?" -> "SLASH"
    [] token = "~" -> "OPENQUOTE" [] token = "{" -> "OPENBRACKET"
    [] token = "|" -> "BACKSLASH" [] token = "}" -> "CLOSEBRACKET"
    [] token \in {"+", "PLUS"} -> "EQUAL" [] token = "\"" -> "SINGLEQUOTE"
    [] OTHER -> NoName

\* the "aliases" match: RETURN and the plain punctuation (the grave accent,
\* an alias of OPENQUOTE, is not a character a TLA+ string can hold)
Alias(token) ==
  CASE token = "RETURN" -> "ENTER" [] token = "=" -> "EQUAL" [] token = "-" -> "MINUS"
    [] token = "'" -> "SINGLEQUOTE" [] token = "," -> "COMMA" [] token = "." -> "PERIOD"
    [] token = ";" -> "SEMICOLON" [] token = "/" -> "SLASH"
    [] token = "[" -> "OPENBRACKET" [] token = "\\" -> "BACKSLASH"
    [] token = "]" -> "CLOSEBRACKET"
    [] OTHER -> NoName

\* Key::from_str
KeyFromStr(p, token) == IF token \in Keys(p) THEN token ELSE NoName

\* the key a key token stands for: shift conversion, else alias, else
\* Key::from_str, else none
KeyOf(p, token) ==
  IF ShiftConversion(token) # NoName THEN ShiftConversion(token)
  ELSE IF Alias(token) # NoName THEN Alias(token)
  ELSE KeyFromStr(p, token)

\* Result<Hotkey>
ParseOk(h) == [ok |-> TRUE, hotkey |-> h, err |-> ""]
ParseErr(msg) == [ok |-> FALSE, hotkey |-> NoHotkey, err |-> msg]
NoParse == [ok |-> FALSE, hotkey |-> NoHotkey, err |-> "?none"]

finish_KeepEmpty(modifiers, keys, shifted) ==
  ParseOk([modifiers |-> IF shifted /\ ~Contains(modifiers, "SHIFT")
                           THEN Append(modifiers, "SHIFT") ELSE modifiers,
           keys |-> keys])

\* the end of parse_hotkey: the implied SHIFT and the match on keys.len()
finish(modifiers, keys, shifted) ==
  IF Len(keys) = 0 THEN ParseErr("hotkey has no key specified")
  ELSE ParseOk([modifiers |-> IF shifted /\ ~Contains(modifiers, "SHIFT")
                                THEN Append(modifiers, "SHIFT") ELSE modifiers,
                keys |-> keys])

duplicated_Allowed(keys, key) == FALSE

\* keys.contains(&key)
duplicated(keys, key) == Contains(keys, key)

RECURSIVE parse_tokens(_, _, _, _, _, _)
\* the for loop of parse_hotkey over the pieces raws, from piece i on
parse_tokens(p, raws, i, modifiers, keys, shifted) ==
  IF i > Len(raws) THEN finish(modifiers, keys, shifted)
  ELSE
    LET raw == raws[i]
        token == trim(raw)
    IN
    IF token = "" THEN parse_tokens(p, raws, i + 1, modifiers, keys, shifted)
    ELSE IF ModifierOf(p, token) # NoName
      THEN parse_tokens(p, raws, i + 1, Append(modifiers, ModifierOf(p, token)), keys, shifted)
    ELSE
      LET key == KeyOf(p, Numbered(token)) IN
      IF key = NoName THEN ParseErr("unknown key " \o Numbered(token))
      ELSE IF duplicated(keys, key) THEN ParseErr("duplicated key " \o raw)
      ELSE parse_tokens(p, raws, i + 1, modifiers, Append(keys, key),
                        shifted \/ ShiftConversion(Numbered(token)) # NoName)

\* parse_hotkey
parse_hotkey(p, hotkey_str) == parse_tokens(p, split(to_uppercase(hotkey_str)), 1, <<>>, <<>>, FALSE)

RECURSIVE join(_, _, _)
\* the pieces of a Vec joined by a separator, from piece i on
join(pieces, sep, i) ==
  IF i > Len(pieces) THEN ""
  ELSE IF i = Len(pieces) THEN pieces[i]
  ELSE pieces[i] \o sep \o join(pieces, sep, i + 1)

\* impl fmt::Display for Hotkey (to_string): the modifiers joined by '+',
\* then '+' and the keys, which are joined by '"'
to_string(h) ==
  LET modifier_string == join(h.modifiers, "+", 1)
      key_string == join(h.keys, "\"", 1)
  IN IF modifier_string # "" THEN modifier_string \o "+" \o key_string ELSE key_string

\* the pieces the strings handed to parse_hotkey are made of: modifiers and
\* their aliases in either case, keys under several spellings, padded, empty
\* and unknown pieces
Words ==
  {"", " ", "CTRL", "shift", "CmdOrCtrl", "Option", "P", " a ", "5", "KEY_5", "%",
   "1", "!", "ENTER", "RETURN"}

\* the symbols of the shift conversions and the plain punctuation
ShiftedSymbols ==
  {")", "!", "@", "#", "$", "%", "^", "&", "*", "(", ":", "<", ">", "_", "?", "~",
   "{", "}", "|", "+", "\""}
PlainPunctuation == {"=", "-", "'", ",", ".", ";", "/", "[", "\\", "]"}

\* a symbol as the only key token, alone and with SHIFT written before it
SymbolSpecs ==
  UNION {{s, "SHIFT+" \o s} : s \in ShiftedSymbols \cup PlainPunctuation}

\* the strings parse_hotkey is called with: up to MaxTokens pieces joined by
\* '+', and the symbol specs
Inputs ==
  {join(ts, "+", 1) : ts \in UNION {[1..k -> Words] : k \in 0..MaxTokens}}
    \cup SymbolSpecs

(* ------------------------------ state ---------------------------------- *)

VARIABLES
  platform,             \* target_os the crate was built for
  ID_COUNTER,           \* static ID_COUNTER
  mgrLive,              \* thread -> does it hold a HotkeyManager
  mgrId,                \* thread -> HotkeyManager.id
  registered_hotkeys,   \* thread -> HotkeyManager.registered_hotkeys (a Vec)
  GLOBAL_HOTKEY_MAP,    \* Hotkey -> (owner id -> callback)
  mapLock,              \* holder of the GLOBAL_HOTKEY_MAP mutex
  listenerLock,         \* holder of the GLOBAL_LISTENER mutex
  last_id,              \* Listener.last_id
  handlers,             \* Listener.handlers: id -> (ListenerHotkey, handler, native ref)
  handlersLock,         \* holder of the Listener.handlers mutex
  reqChan,              \* method_sender -> thread_receiver
  respChan,             \* thread_sender -> method_receiver
  wpc,                  \* position of the worker thread
  wmsg,                 \* native id the worker is finishing a request for
  osBound,              \* native id -> encoding currently registered with the OS
  osEvents,             \* native ids for which a hotkey event can still arrive
  event_handler_ref,    \* macos: what install_event_handler returned to the worker
  visited,              \* macos DropThread: the handlers entries the loop has been through
  dpc,                  \* position of the trigger dispatch path
  did,                  \* native id being dispatched
  lastDispatch,         \* the owner callbacks run by the dispatch in progress
  pc,                   \* thread -> position inside the current API call
  call,                 \* thread -> the API call in progress
  ret,                  \* thread -> the last API call's outcome
  hotkey_string,        \* the argument of parse_hotkey
  parsed,               \* the Result parse_hotkey returned
  shown,                \* the Hotkey hotkey_string was displayed from
  ppc                   \* position of the caller of parse_hotkey

programVars == <<platform, ID_COUNTER, mgrLive, mgrId, registered_hotkeys,
                 GLOBAL_HOTKEY_MAP, mapLock, listenerLock, last_id, handlers,
                 handlersLock, reqChan, respChan, wpc, wmsg, osBound, osEvents,
                 event_handler_ref, visited, dpc, did, lastDispatch, pc, call, ret>>
parseVars == <<hotkey_string, parsed, shown, ppc>>
vars == <<programVars, parseVars>>

Threads == 1..NumThreads
NoThread == 0
WorkerThread == NumThreads + 1
EventThread == NumThreads + 2

\* the thread the trigger dispatch runs on: the worker's message loop on
\* windows, the thread running the Carbon event loop on macos
DispatchThread == IF platform = "windows" THEN WorkerThread ELSE EventThread

NoCall == [op |-> "none", outer |-> "none", hotkey |-> NoHotkey, cb |-> "f",
           todo |-> <<>>, attempts |-> <<>>, id |-> 0, reply |-> "none"]
NoRet == [op |-> "none", hotkey |-> NoHotkey, result |-> "none", attempts |-> <<>>]
NoDispatch == [hotkey |-> NoHotkey, invoked |-> EmptyBag]

\* the statics before the first call: GLOBAL_LISTENER is a Lazy, the Listener
\* and its worker thread do not exist yet
ProgramInit ==
  /\ platform \in Platforms
  /\ ID_COUNTER = 0
  /\ mgrLive = [t \in Threads |-> FALSE]
  /\ mgrId = [t \in Threads |-> 0]
  /\ registered_hotkeys = [t \in Threads |-> <<>>]
  /\ GLOBAL_HOTKEY_MAP = <<>>
  /\ mapLock = NoThread
  /\ listenerLock = NoThread
  /\ last_id = 0
  /\ handlers = <<>>
  /\ handlersLock = NoThread
  /\ reqChan = <<>>
  /\ respChan = <<>>
  /\ wpc = "unborn"
  /\ wmsg = 0
  /\ osBound = <<>>
  /\ osEvents = {}
  /\ event_handler_ref = "none"
  /\ visited = {}
  /\ dpc = "idle"
  /\ did = 0
  /\ lastDispatch = NoDispatch
  /\ pc = [t \in Threads |-> "idle"]
  /\ call = [t \in Threads |-> NoCall]
  /\ ret = [t \in Threads |-> NoRet]

Init ==
  /\ ProgramInit
  /\ hotkey_string = ""
  /\ parsed = NoParse
  /\ shown = NoHotkey
  /\ ppc = "idle"

(* ------------------------------ helpers -------------------------------- *)

\* a map without one of its keys
MapRemove(f, k) == [x \in (DOMAIN f) \ {k} |-> f[x]]

\* a map with one key set
MapInsert(f, k, v) == [x \in (DOMAIN f) \cup {k} |-> IF x = k THEN v ELSE f[x]]

Position_Front(s, x) == IF Len(s) > 0 THEN 1 ELSE 0

\* iter().position(|h| h == hotkey): the first index, 0 for None
Position(s, x) ==
  IF Contains(s, x) THEN CHOOSE i \in 1..Len(s) : s[i] = x /\ \A j \in 1..(i - 1) : s[j] # x
  ELSE 0

RemoveAt_Keep(s, i) == s

\* Vec::remove(index)
RemoveAt(s, i) == [j \in 1..(Len(s) - 1) |-> IF j < i THEN s[j] ELSE s[j + 1]]

is_registered_Never(t, h) == FALSE

\* is_registered
is_registered(t, h) == Contains(registered_hotkeys[t], h)

Occupied_Never(h) == FALSE

\* entry(hotkey) is Entry::Occupied
Occupied(h) == h \in DOMAIN GLOBAL_HOTKEY_MAP

is_empty_Always(entry) == TRUE

\* entry.is_empty() on an owner table
is_empty(entry) == DOMAIN entry = {}

MatchGuard_Dropped(t) == NoThread

\* the holder of the GLOBAL_HOTKEY_MAP mutex inside the Vacant arm: the guard
\* is a temporary of the match scrutinee and lives to the end of the match
MatchGuard(t) == t


\* Err(Error::System(err)) as produced by `?` on a HotkeyError
SystemError(e) ==
  CASE e = "BackendApiError" -> "System(BackendApiError)"
    [] e = "HotkeyAlreadyRegistered" -> "System(HotkeyAlreadyRegistered)"
    [] e = "HotkeyNotRegistered" -> "System(HotkeyNotRegistered)"
    [] e = "ChannelError" -> "System(ChannelError)"
    [] OTHER -> "System(Unknown)"

\* the ids in Listener.handlers whose stored ListenerHotkey equals enc
HandlerIds(enc) == {i \in DOMAIN handlers : handlers[i].hotkey = enc}

\* a caller thread returns from its outermost API call
Return(t, op, h, res, attempts) ==
  /\ ret' = [ret EXCEPT ![t] = [op |-> op, hotkey |-> h, result |-> res, attempts |-> attempts]]
  /\ pc' = [pc EXCEPT ![t] = "idle"]
  /\ call' = [call EXCEPT ![t] = NoCall]

mgrVars == <<mgrLive, mgrId, registered_hotkeys>>
lockVars == <<mapLock, listenerLock, handlersLock>>
listenerVars == <<last_id, handlers, reqChan, respChan>>
workerVars == <<wpc, wmsg, osBound, osEvents>>
installVars == <<event_handler_ref, visited>>
dispVars == <<dpc, did, lastDispatch>>

\* the worker thread has ended: its thread_receiver and thread_sender are
\* dropped, so a send to it fails and a recv from it fails once the channel
\* is empty
WorkerGone == wpc \in {"exited", "panic"}

\* the threads inside register that may still take a native id
Registering == {t \in Threads : pc[t] \in {"reg_lock", "reg_check"}}

(* ------------------------- HotkeyManager::new -------------------------- *)

fetch_add_Lost(counter, val) == counter

\* AtomicUsize::fetch_add: the value the counter has afterwards (the call
\* returns the one it had before)
fetch_add(counter, val) == counter + val

\* HotkeyManager::default: id = ID_COUNTER.fetch_add(1)
NewManager(t) ==
  /\ ~mgrLive[t]
  /\ pc[t] = "idle"
  /\ ID_COUNTER < MaxManagers
  /\ mgrLive' = [mgrLive EXCEPT ![t] = TRUE]
  /\ mgrId' = [mgrId EXCEPT ![t] = ID_COUNTER]
  /\ registered_hotkeys' = [registered_hotkeys EXCEPT ![t] = <<>>]
  /\ ID_COUNTER' = fetch_add(ID_COUNTER, 1)
  /\ ret' = [ret EXCEPT ![t] = NoRet]
  /\ UNCHANGED <<parseVars, installVars, platform, GLOBAL_HOTKEY_MAP, lockVars, listenerVars, workerVars,
                 dispVars, pc, call>>

(* ----------------------- HotkeyManager::register ----------------------- *)

\* register, up to the registry lock: the is_registered check
CallRegister(t, h, cb) ==
  /\ mgrLive[t]
  /\ pc[t] = "idle"
  /\ last_id + Cardinality(Registering) < MaxListenerIds
  /\ IF is_registered(t, h)
       THEN Return(t, "register", h, "HotkeyAlreadyRegistered", <<>>)
       ELSE /\ pc' = [pc EXCEPT ![t] = "reg_lock"]
            /\ call' = [call EXCEPT ![t] = [NoCall EXCEPT !.op = "register", !.hotkey = h, !.cb = cb]]
            /\ ret' = [ret EXCEPT ![t] = NoRet]
  /\ UNCHANGED <<parseVars, installVars, platform, ID_COUNTER, mgrVars, GLOBAL_HOTKEY_MAP, lockVars,
                 listenerVars, workerVars, dispVars>>

\* GLOBAL_HOTKEY_MAP.lock().unwrap().entry(hotkey): Occupied inserts the
\* owner and leaves the match; Vacant keeps the lock for the native call
RegLock(t) ==
  /\ pc[t] = "reg_lock"
  /\ mapLock = NoThread
  /\ LET h == call[t].hotkey IN
     IF Occupied(h)
       THEN /\ GLOBAL_HOTKEY_MAP' =
                 [GLOBAL_HOTKEY_MAP EXCEPT ![h] = MapInsert(@, mgrId[t], call[t].cb)]
            /\ pc' = [pc EXCEPT ![t] = "reg_push"]
            /\ UNCHANGED mapLock
       ELSE /\ mapLock' = MatchGuard(t)
            /\ pc' = [pc EXCEPT ![t] = "reg_check"]
            /\ UNCHANGED GLOBAL_HOTKEY_MAP
  /\ UNCHANGED <<parseVars, installVars, platform, ID_COUNTER, mgrVars, listenerLock, handlersLock,
                 listenerVars, workerVars, dispVars, call, ret>>

\* GLOBAL_LISTENER.lock() and the first half of Listener::register_hotkey:
\* the duplicate check, last_id += 1, (macos) the handlers insert, the send
RegCheck(t) ==
  /\ pc[t] = "reg_check"
  /\ wpc # "unborn"
  /\ listenerLock = NoThread
  /\ handlersLock = NoThread
  /\ LET h == call[t].hotkey
         enc == ListenerHotkey(platform, h)
         id == last_id + 1
     IN
     IF HandlerIds(enc) # {}
       THEN /\ Return(t, "register", h, SystemError("HotkeyAlreadyRegistered"), <<>>)
            /\ mapLock' = NoThread
            /\ UNCHANGED <<listenerLock, last_id, handlers, reqChan>>
       ELSE /\ last_id' = id
            /\ handlers' = IF platform = "macos"
                             THEN MapInsert(handlers, id, [hotkey |-> enc, handler |-> h, ref |-> 0])
                             ELSE handlers
            /\ IF WorkerGone
                 THEN \* send(..).map_err(|_| ChannelError)?
                      /\ Return(t, "register", h, SystemError("ChannelError"), <<>>)
                      /\ mapLock' = NoThread
                      /\ UNCHANGED <<listenerLock, reqChan>>
                 ELSE /\ reqChan' = Append(reqChan, [kind |-> "RegisterHotkey", id |-> id,
                                                     hotkey |-> enc])
                      /\ listenerLock' = t
                      /\ call' = [call EXCEPT ![t].id = id]
                      /\ pc' = [pc EXCEPT ![t] = "reg_wait"]
                      /\ UNCHANGED <<mapLock, ret>>
  /\ UNCHANGED <<parseVars, installVars, platform, ID_COUNTER, mgrVars, GLOBAL_HOTKEY_MAP, handlersLock,
                 respChan, workerVars, dispVars>>

\* self.receiver.recv() in register_hotkey: the next message of the response
\* channel, Err(_) when the channel is empty and the worker has ended
RegRecv(t) ==
  /\ pc[t] = "reg_wait"
  /\ IF respChan # <<>>
       THEN /\ LET reply == Head(respChan) IN
               call' = [call EXCEPT ![t].reply =
                          IF reply.kind = "RegisterHotkeyResult" THEN reply.result
                                                                 ELSE "Unknown"]
            /\ respChan' = Tail(respChan)
       ELSE /\ WorkerGone
            /\ call' = [call EXCEPT ![t].reply = "ChannelError"]
            /\ UNCHANGED respChan
  /\ pc' = [pc EXCEPT ![t] = "reg_post"]
  /\ UNCHANGED <<parseVars, installVars, platform, ID_COUNTER, mgrVars, GLOBAL_HOTKEY_MAP, lockVars,
                 last_id, handlers, reqChan, workerVars, dispVars, ret>>

HandlersAfterReply_Kept(id, enc, h, r) ==
  IF platform = "windows" /\ r = "Ok"
    THEN MapInsert(handlers, id, [hotkey |-> enc, handler |-> h, ref |-> 0])
    ELSE handlers

\* Listener.handlers once register_hotkey has its reply: windows inserts the
\* handler on Ok, macos (which inserted it before the send) removes it on Err
HandlersAfterReply(id, enc, h, r) ==
  IF platform = "windows" /\ r = "Ok"
    THEN MapInsert(handlers, id, [hotkey |-> enc, handler |-> h, ref |-> 0])
  ELSE IF platform = "macos" /\ r # "Ok"
    THEN MapRemove(handlers, id)
  ELSE handlers

\* the rest of register_hotkey (windows inserts the handler on Ok, macos
\* removes it on Err), then `?` and entry.insert(new_map) in register
RegPost(t) ==
  /\ pc[t] = "reg_post"
  /\ LET h == call[t].hotkey
         r == call[t].reply
         id == call[t].id
         enc == ListenerHotkey(platform, h)
     IN
     /\ ((platform = "windows" /\ r = "Ok") \/ (platform = "macos" /\ r # "Ok"))
           => handlersLock = NoThread
     /\ handlers' = HandlersAfterReply(id, enc, h, r)
     /\ IF r = "Ok"
          THEN /\ GLOBAL_HOTKEY_MAP' =
                    MapInsert(GLOBAL_HOTKEY_MAP, h, [o \in {mgrId[t]} |-> call[t].cb])
               /\ pc' = [pc EXCEPT ![t] = "reg_push"]
               /\ UNCHANGED <<call, ret>>
          ELSE /\ Return(t, "register", h, SystemError(r), <<>>)
               /\ UNCHANGED GLOBAL_HOTKEY_MAP
  /\ mapLock' = NoThread
  /\ listenerLock' = NoThread
  /\ UNCHANGED <<parseVars, installVars, platform, ID_COUNTER, mgrVars, handlersLock, last_id, reqChan,
                 respChan, workerVars, dispVars>>

\* self.registered_hotkeys.push(hotkey_); Ok(())
RegPush(t) ==
  /\ pc[t] = "reg_push"
  /\ registered_hotkeys' = [registered_hotkeys EXCEPT ![t] = Append(@, call[t].hotkey)]
  /\ Return(t, "register", call[t].hotkey, "Ok", <<>>)
  /\ UNCHANGED <<parseVars, installVars, platform, ID_COUNTER, mgrLive, mgrId, GLOBAL_HOTKEY_MAP, lockVars,
                 listenerVars, workerVars, dispVars>>

(* ---------------------- HotkeyManager::unregister ---------------------- *)

FinishUnregister_StopAtError(t, res) ==
  LET c == call[t]
      attempts == Append(c.attempts, res)
  IN
  IF c.outer = "none"
    THEN /\ Return(t, "unregister", c.hotkey, res, <<>>)
         /\ UNCHANGED mgrLive
    ELSE IF Len(c.todo) <= 1 \/ res # "Ok"
      THEN /\ Return(t, c.outer, NoHotkey, res, attempts)
           /\ mgrLive' = [mgrLive EXCEPT ![t] = IF c.outer = "drop" THEN FALSE ELSE @]
      ELSE /\ call' = [call EXCEPT ![t].todo = Tail(c.todo), ![t].attempts = attempts]
           /\ pc' = [pc EXCEPT ![t] = "all_next"]
           /\ UNCHANGED <<ret, mgrLive>>

\* unregister returns res: to the caller, or into the loop of unregister_all
\* (result = self.unregister(hotkey)), which returns after the last hotkey
FinishUnregister(t, res) ==
  LET c == call[t]
      attempts == Append(c.attempts, res)
  IN
  IF c.outer = "none"
    THEN /\ Return(t, "unregister", c.hotkey, res, <<>>)
         /\ UNCHANGED mgrLive
    ELSE IF Len(c.todo) <= 1
      THEN /\ Return(t, c.outer, NoHotkey, res, attempts)
           /\ mgrLive' = [mgrLive EXCEPT ![t] = IF c.outer = "drop" THEN FALSE ELSE @]
      ELSE /\ call' = [call EXCEPT ![t].todo = Tail(c.todo), ![t].attempts = attempts]
           /\ pc' = [pc EXCEPT ![t] = "all_next"]
           /\ UNCHANGED <<ret, mgrLive>>

\* unregister, up to the registry lock: position() and Vec::remove
CallUnregister(t, h) ==
  /\ mgrLive[t]
  /\ pc[t] = "idle"
  /\ LET index == Position(registered_hotkeys[t], h) IN
     IF index = 0
       THEN /\ Return(t, "unregister", h, "HotkeyNotRegistered", <<>>)
            /\ UNCHANGED registered_hotkeys
       ELSE /\ registered_hotkeys' = [registered_hotkeys EXCEPT ![t] = RemoveAt(@, index)]
            /\ pc' = [pc EXCEPT ![t] = "unreg_lock"]
            /\ call' = [call EXCEPT ![t] = [NoCall EXCEPT !.op = "unregister", !.hotkey = h]]
            /\ ret' = [ret EXCEPT ![t] = NoRet]
  /\ UNCHANGED <<parseVars, installVars, platform, ID_COUNTER, mgrLive, mgrId, GLOBAL_HOTKEY_MAP, lockVars,
                 listenerVars, workerVars, dispVars>>

entry_remove_Skipped(entry, id) == entry

\* entry.remove(&self.id) on an owner table
entry_remove(entry, id) == MapRemove(entry, id)

\* GLOBAL_HOTKEY_MAP.lock().unwrap().entry(hotkey) in unregister: remove the
\* owner; an emptied table is removed and the lock kept for the native call
UnregLock(t) ==
  /\ pc[t] = "unreg_lock"
  /\ mapLock = NoThread
  /\ LET h == call[t].hotkey IN
     IF ~Occupied(h) \/ mgrId[t] \notin DOMAIN GLOBAL_HOTKEY_MAP[h]
       THEN \* panic!("should never be vacant") with the lock held
            /\ pc' = [pc EXCEPT ![t] = "panic"]
            /\ mapLock' = t
            /\ UNCHANGED <<GLOBAL_HOTKEY_MAP, call, ret, mgrLive>>
       ELSE LET entry == entry_remove(GLOBAL_HOTKEY_MAP[h], mgrId[t]) IN
            IF is_empty(entry)
              THEN /\ GLOBAL_HOTKEY_MAP' = MapRemove(GLOBAL_HOTKEY_MAP, h)
                   /\ mapLock' = t
                   /\ pc' = [pc EXCEPT ![t] = "unreg_find"]
                   /\ UNCHANGED <<call, ret, mgrLive>>
              ELSE /\ GLOBAL_HOTKEY_MAP' = [GLOBAL_HOTKEY_MAP EXCEPT ![h] = entry]
                   /\ FinishUnregister(t, "Ok")
                   /\ UNCHANGED mapLock
  /\ UNCHANGED <<parseVars, installVars, platform, ID_COUNTER, mgrId, registered_hotkeys, listenerLock,
                 handlersLock, listenerVars, workerVars, dispVars>>

\* GLOBAL_LISTENER.lock() and the first half of Listener::unregister_hotkey:
\* the search for the id whose ListenerHotkey matches, and the send
UnregFind(t) ==
  /\ pc[t] = "unreg_find"
  /\ listenerLock = NoThread
  /\ handlersLock = NoThread
  /\ LET found == HandlerIds(ListenerHotkey(platform, call[t].hotkey)) IN
     IF found = {}
       THEN /\ FinishUnregister(t, SystemError("HotkeyNotRegistered"))
            /\ mapLock' = NoThread
            /\ UNCHANGED <<listenerLock, reqChan>>
       ELSE IF WorkerGone
         THEN \* send(..).map_err(|_| ChannelError)?
              /\ FinishUnregister(t, SystemError("ChannelError"))
              /\ mapLock' = NoThread
              /\ UNCHANGED <<listenerLock, reqChan>>
       ELSE \E found_id \in found :
            /\ reqChan' = Append(reqChan, [kind |-> "UnregisterHotkey", id |-> found_id,
                                           hotkey |-> <<0, 0>>])
            /\ listenerLock' = t
            /\ call' = [call EXCEPT ![t].id = found_id]
            /\ pc' = [pc EXCEPT ![t] = IF platform = "windows" THEN "unreg_remove"
                                                              ELSE "unreg_wait"]
            /\ UNCHANGED <<mapLock, ret, mgrLive>>
  /\ UNCHANGED <<parseVars, installVars, platform, ID_COUNTER, mgrId, registered_hotkeys, GLOBAL_HOTKEY_MAP,
                 handlersLock, last_id, handlers, respChan, workerVars, dispVars>>

\* windows unregister_hotkey: self.handlers.lock().unwrap().remove(&found_id)
UnregRemove(t) ==
  /\ pc[t] = "unreg_remove"
  /\ handlersLock = NoThread
  /\ IF call[t].id \in DOMAIN handlers
       THEN /\ handlers' = MapRemove(handlers, call[t].id)
            /\ pc' = [pc EXCEPT ![t] = "unreg_wait"]
       ELSE \* panic!("hotkey should never be none")
            /\ pc' = [pc EXCEPT ![t] = "panic"]
            /\ UNCHANGED handlers
  /\ UNCHANGED <<parseVars, installVars, platform, ID_COUNTER, mgrVars, GLOBAL_HOTKEY_MAP, lockVars, last_id,
                 reqChan, respChan, workerVars, dispVars, call, ret>>

\* self.receiver.recv() in unregister_hotkey, then `?` in unregister
UnregRecv(t) ==
  /\ pc[t] = "unreg_wait"
  /\ IF respChan # <<>>
       THEN /\ LET reply == Head(respChan)
                   res == IF reply.kind # "UnregisterHotkeyResult" THEN SystemError("Unknown")
                          ELSE IF reply.result = "Ok" THEN "Ok"
                          ELSE SystemError(reply.result)
               IN FinishUnregister(t, res)
            /\ respChan' = Tail(respChan)
       ELSE /\ WorkerGone
            /\ FinishUnregister(t, SystemError("ChannelError"))
            /\ UNCHANGED respChan
  /\ mapLock' = NoThread
  /\ listenerLock' = NoThread
  /\ UNCHANGED <<parseVars, installVars, platform, ID_COUNTER, mgrId, registered_hotkeys, GLOBAL_HOTKEY_MAP,
                 handlersLock, last_id, handlers, reqChan, workerVars, dispVars>>

(* ------------------ unregister_all and Drop for HotkeyManager ---------- *)

\* for hotkey in self.registered_hotkeys.clone().iter(): the loop is entered
\* with the clone in todo; an empty clone returns Ok(()) at once
StartUnregisterAll(t, outer) ==
  /\ mgrLive[t]
  /\ pc[t] = "idle"
  /\ IF registered_hotkeys[t] = <<>>
       THEN /\ Return(t, outer, NoHotkey, "Ok", <<>>)
            /\ mgrLive' = [mgrLive EXCEPT ![t] = IF outer = "drop" THEN FALSE ELSE @]
       ELSE /\ call' = [call EXCEPT ![t] = [NoCall EXCEPT !.op = "unregister", !.outer = outer,
                                                         !.todo = registered_hotkeys[t]]]
            /\ pc' = [pc EXCEPT ![t] = "all_next"]
            /\ ret' = [ret EXCEPT ![t] = NoRet]
            /\ UNCHANGED mgrLive
  /\ UNCHANGED <<parseVars, installVars, platform, ID_COUNTER, mgrId, registered_hotkeys, GLOBAL_HOTKEY_MAP,
                 lockVars, listenerVars, workerVars, dispVars>>

CallUnregisterAll(t) == StartUnregisterAll(t, "unregister_all")

Drop(t) == StartUnregisterAll(t, "drop")

\* one iteration of the loop: self.unregister(hotkey) up to the registry lock
AllNext(t) ==
  /\ pc[t] = "all_next"
  /\ LET h == Head(call[t].todo)
         index == Position(registered_hotkeys[t], h)
     IN
     IF index = 0
       THEN /\ FinishUnregister(t, "HotkeyNotRegistered")
            /\ UNCHANGED registered_hotkeys
       ELSE /\ registered_hotkeys' = [registered_hotkeys EXCEPT ![t] = RemoveAt(@, index)]
            /\ pc' = [pc EXCEPT ![t] = "unreg_lock"]
            /\ call' = [call EXCEPT ![t].hotkey = h]
            /\ UNCHANGED <<ret, mgrLive>>
  /\ UNCHANGED <<parseVars, installVars, platform, ID_COUNTER, mgrId, GLOBAL_HOTKEY_MAP, lockVars,
                 listenerVars, workerVars, dispVars>>

(* --------------------------- the native layer -------------------------- *)

\* RegisterHotKey / register_hotkey: the OS grants the registration (a
\* non-zero result, a non-null handle) or refuses it
NativeRegisterOutcomes(enc) == {"ok", "fail"}

\* UnregisterHotKey / unregister_hotkey: fails for an id the OS does not hold,
\* and may report a failure for one it holds (the registration then stays)
NativeUnregisterOutcomes(id) ==
  IF id \in DOMAIN osBound THEN {"ok", "fail"} ELSE {"fail"}

(* ------------------------ the Listener's worker thread ----------------- *)

\* Lazy::new(|| Arc::new(Mutex::new(Listener::new()))) is forced by the first
\* GLOBAL_LISTENER.lock(): the channels are made and the worker thread is
\* spawned; the windows worker goes straight into its loop
ListenerNew ==
  /\ wpc = "unborn"
  /\ \E t \in Threads : pc[t] = "reg_check"
  /\ wpc' = IF platform = "macos" THEN "init" ELSE "loop"
  /\ UNCHANGED <<parseVars, installVars, platform, ID_COUNTER, mgrVars, GLOBAL_HOTKEY_MAP,
                 lockVars, listenerVars, wmsg, osBound, osEvents, dispVars, pc, call, ret>>

\* install_event_handler: a handler reference, or null when the installation
\* failed
InstallOutcomes == {"installed", "null"}

\* the start of the macos worker thread: register_event_handler_callback; on
\* null the thread returns, which drops its ends of the two channels with
\* whatever request was waiting
WorkerInit ==
  /\ wpc = "init"
  /\ \E ref \in InstallOutcomes :
       /\ event_handler_ref' = ref
       /\ IF ref = "null"
            THEN /\ wpc' = "exited"
                 /\ reqChan' = <<>>
            ELSE /\ wpc' = "loop"
                 /\ UNCHANGED reqChan
  /\ UNCHANGED <<parseVars, visited, platform, ID_COUNTER, mgrVars, GLOBAL_HOTKEY_MAP, lockVars,
                 last_id, handlers, respChan, wmsg, osBound, osEvents, dispVars, pc, call, ret>>

ResultKind_Register(request) == "RegisterHotkeyResult"

\* the HotkeyMessage variant the worker answers a request with
ResultKind(request) ==
  IF request = "RegisterHotkey" THEN "RegisterHotkeyResult" ELSE "UnregisterHotkeyResult"

\* Ok(HotkeyMessage::RegisterHotkey(id, ..)) in the worker loop
WorkerRegister ==
  /\ wpc = "loop"
  /\ platform = "windows" => dpc = "idle"
  /\ reqChan # <<>>
  /\ Head(reqChan).kind = "RegisterHotkey"
  /\ reqChan' = Tail(reqChan)
  /\ LET msg == Head(reqChan) IN
     \E out \in NativeRegisterOutcomes(msg.hotkey) :
       IF out = "fail"
         THEN /\ respChan' = Append(respChan, [kind |-> ResultKind("RegisterHotkey"),
                                               result |-> "BackendApiError"])
              /\ UNCHANGED <<wpc, wmsg, osBound, osEvents>>
         ELSE /\ osBound' = MapInsert(osBound, msg.id, msg.hotkey)
              /\ osEvents' = osEvents \cup {msg.id}
              /\ IF platform = "windows"
                   THEN /\ respChan' = Append(respChan, [kind |-> ResultKind("RegisterHotkey"),
                                                         result |-> "Ok"])
                        /\ UNCHANGED <<wpc, wmsg>>
                   ELSE /\ wpc' = "set_ref"
                        /\ wmsg' = msg.id
                        /\ UNCHANGED respChan
  /\ UNCHANGED <<parseVars, installVars, platform, ID_COUNTER, mgrVars, GLOBAL_HOTKEY_MAP, lockVars, last_id,
                 handlers, dispVars, pc, call, ret>>

\* macos RegisterHotkey, after a successful native call: store the CarbonRef
\* in the handlers entry, then send RegisterHotkeyResult(Ok)
WorkerSetRef ==
  /\ wpc = "set_ref"
  /\ handlersLock = NoThread
  /\ handlers' = IF wmsg \in DOMAIN handlers
                   THEN [handlers EXCEPT ![wmsg].ref = wmsg]
                   ELSE handlers
  /\ respChan' = Append(respChan, [kind |-> ResultKind("RegisterHotkey"), result |-> "Ok"])
  /\ wpc' = "loop"
  /\ wmsg' = 0
  /\ UNCHANGED <<parseVars, installVars, platform, ID_COUNTER, mgrVars, GLOBAL_HOTKEY_MAP, lockVars, last_id,
                 reqChan, osBound, osEvents, dispVars, pc, call, ret>>

\* Ok(HotkeyMessage::UnregisterHotkey(id)) in the worker loop: windows calls
\* UnregisterHotKey(id); macos removes the handlers entry and unregisters the
\* CarbonRef it held
WorkerUnregister ==
  /\ wpc = "loop"
  /\ platform = "windows" => dpc = "idle"
  /\ reqChan # <<>>
  /\ Head(reqChan).kind = "UnregisterHotkey"
  /\ reqChan' = Tail(reqChan)
  /\ LET id == Head(reqChan).id IN
     IF platform = "windows"
       THEN /\ \E out \in NativeUnregisterOutcomes(id) :
                 /\ osBound' = IF out = "ok" THEN MapRemove(osBound, id) ELSE osBound
                 /\ respChan' = Append(respChan,
                      [kind |-> ResultKind("UnregisterHotkey"),
                       result |-> IF out = "ok" THEN "Ok" ELSE "BackendApiError"])
            /\ UNCHANGED <<handlers, wpc>>
       ELSE /\ handlersLock = NoThread
            /\ IF id \in DOMAIN handlers
                 THEN /\ handlers' = MapRemove(handlers, id)
                      /\ \E out \in NativeUnregisterOutcomes(handlers[id].ref) :
                           /\ osBound' = IF out = "ok" THEN MapRemove(osBound, handlers[id].ref)
                                                       ELSE osBound
                           /\ respChan' = Append(respChan,
                                [kind |-> ResultKind("UnregisterHotkey"),
                                 result |-> IF out = "ok" THEN "Ok" ELSE "BackendApiError"])
                      /\ UNCHANGED wpc
                 ELSE \* panic!("hotkey should be never be none")
                      /\ wpc' = "panic"
                      /\ UNCHANGED <<handlers, osBound, respChan>>
  /\ UNCHANGED <<parseVars, installVars, platform, ID_COUNTER, mgrVars, GLOBAL_HOTKEY_MAP, lockVars, last_id,
                 wmsg, osEvents, dispVars, pc, call, ret>>

(* ---------------------------- trigger dispatch ------------------------- *)

Invocations_First(entry) ==
  LET o == CHOOSE x \in DOMAIN entry : TRUE IN [p \in {<<o, entry[o]>>} |-> 1]

\* for (_, cb) in entry.iter_mut() { cb() }: every (owner, callback) of the
\* owner table, once
Invocations(entry) == [p \in {<<o, entry[o]>> : o \in DOMAIN entry} |-> 1]

\* a hotkey event for native id arrives (PeekMessageW on windows, the Carbon
\* event callback on macos): hotkey_map.lock().unwrap().get_mut(&id)
DispatchBegin(id) ==
  /\ dpc = "idle"
  /\ platform = "windows" => wpc = "loop"
  /\ id \in osEvents
  /\ handlersLock = NoThread
  /\ id \in DOMAIN handlers
  /\ handlersLock' = DispatchThread
  /\ dpc' = "handler"
  /\ did' = id
  /\ UNCHANGED <<parseVars, installVars, platform, ID_COUNTER, mgrVars, GLOBAL_HOTKEY_MAP, mapLock, listenerLock,
                 listenerVars, workerVars, lastDispatch, pc, call, ret>>

\* handler(): the closure built in register locks GLOBAL_HOTKEY_MAP, looks
\* its hotkey up and runs the callbacks of the owner table in some order; the
\* guard is a temporary of the `if let` and is held while they run.  A
\* callback that calls register or unregister stops at its own
\* GLOBAL_HOTKEY_MAP.lock(): the mutex is held by this very thread
DispatchInvoke ==
  /\ dpc = "handler"
  /\ mapLock = NoThread
  /\ LET h == handlers[did].handler IN
     IF h \notin DOMAIN GLOBAL_HOTKEY_MAP
       THEN /\ lastDispatch' = [hotkey |-> h, invoked |-> EmptyBag]
            /\ dpc' = "done"
            /\ UNCHANGED mapLock
       ELSE LET entry == GLOBAL_HOTKEY_MAP[h]
                blocking == {o \in DOMAIN entry : entry[o] \in Reentrant}
            IN
            /\ mapLock' = DispatchThread
            /\ IF blocking = {}
                 THEN /\ lastDispatch' = [hotkey |-> h, invoked |-> Invocations(entry)]
                      /\ dpc' = "done"
                 ELSE \E o \in blocking, before \in SUBSET ((DOMAIN entry) \ blocking) :
                        /\ lastDispatch' =
                             [hotkey |-> h,
                              invoked |-> Invocations([x \in before \cup {o} |-> entry[x]])]
                        /\ dpc' = "callback_lock"
  /\ UNCHANGED <<parseVars, installVars, platform, ID_COUNTER, mgrVars, GLOBAL_HOTKEY_MAP, listenerLock,
                 handlersLock, listenerVars, workerVars, did, pc, call, ret>>

\* the callbacks and the handler returned: the guards on GLOBAL_HOTKEY_MAP
\* and on the handlers map are dropped
DispatchEnd ==
  /\ dpc = "done"
  /\ handlersLock' = NoThread
  /\ mapLock' = IF mapLock = DispatchThread THEN NoThread ELSE mapLock
  /\ dpc' = "idle"
  /\ did' = 0
  /\ lastDispatch' = NoDispatch
  /\ UNCHANGED <<parseVars, installVars, platform, ID_COUNTER, mgrVars, GLOBAL_HOTKEY_MAP, listenerLock,
                 listenerVars, workerVars, pc, call, ret>>

(* ---------------------------- specification ---------------------------- *)

Next ==
  \/ \E t \in Threads : NewManager(t)
  \/ \E t \in Threads, h \in Hotkeys, cb \in Callbacks : CallRegister(t, h, cb)
  \/ \E t \in Threads : RegLock(t)
  \/ \E t \in Threads : RegCheck(t)
  \/ \E t \in Threads : RegRecv(t)
  \/ \E t \in Threads : RegPost(t)
  \/ \E t \in Threads : RegPush(t)
  \/ \E t \in Threads, h \in Hotkeys : CallUnregister(t, h)
  \/ \E t \in Threads : UnregLock(t)
  \/ \E t \in Threads : UnregFind(t)
  \/ \E t \in Threads : UnregRemove(t)
  \/ \E t \in Threads : UnregRecv(t)
  \/ \E t \in Threads : CallUnregisterAll(t)
  \/ \E t \in Threads : Drop(t)
  \/ \E t \in Threads : AllNext(t)
  \/ ListenerNew
  \/ WorkerInit
  \/ WorkerRegister
  \/ WorkerSetRef
  \/ WorkerUnregister
  \/ \E id \in osEvents : DispatchBegin(id)
  \/ DispatchInvoke
  \/ DispatchEnd

Spec == Init /\ [][Next]_vars

(* --------------------- a caller of parse_hotkey ------------------------ *)

\* parse_hotkey(hotkey_string), for a string of the caller and for the
\* string a Hotkey was displayed as
Parse ==
  /\ ppc \in {"input", "shown"}
  /\ parsed' = parse_hotkey(platform, hotkey_string)
  /\ ppc' = IF ppc = "input" THEN "parsed" ELSE "reparsed"
  /\ UNCHANGED <<programVars, hotkey_string, shown>>

\* hotkey.to_string() on the Hotkey parse_hotkey returned
Display ==
  /\ ppc = "parsed"
  /\ parsed.ok
  /\ shown' = parsed.hotkey
  /\ hotkey_string' = to_string(parsed.hotkey)
  /\ parsed' = NoParse
  /\ ppc' = "shown"
  /\ UNCHANGED programVars

ParseInit ==
  /\ ProgramInit
  /\ hotkey_string \in Inputs
  /\ parsed = NoParse
  /\ shown = NoHotkey
  /\ ppc = "input"

ParseNext == Parse \/ Display

ParseSpec == ParseInit /\ [][ParseNext]_vars

(* ------------- a program that owns a Listener of its own --------------- *)

\* the thread that owns the Listener; what the model keeps still while it
\* runs: the HotkeyManager statics, the locks it never contends for, the
\* trigger path
Client == 1
aloofVars == <<parseVars, platform, ID_COUNTER, mgrVars, GLOBAL_HOTKEY_MAP, lockVars, dispVars>>

\* Listener::new(): the channels, the spawned worker thread
ClientNew ==
  /\ pc[Client] = "idle"
  /\ wpc = "unborn"
  /\ wpc' = IF platform = "macos" THEN "init" ELSE "loop"
  /\ UNCHANGED <<aloofVars, installVars, listenerVars, wmsg, osBound, osEvents, pc, call, ret>>

\* Listener::register_hotkey up to the wait for the reply: the duplicate
\* check, last_id += 1, (macos) the handlers insert, the send
ClientRegister(h) ==
  /\ pc[Client] = "idle"
  /\ wpc # "unborn"
  /\ last_id < MaxListenerIds
  /\ LET enc == ListenerHotkey(platform, h)
         id == last_id + 1
     IN
     IF HandlerIds(enc) # {}
       THEN /\ Return(Client, "register_hotkey", h, "HotkeyAlreadyRegistered", <<>>)
            /\ UNCHANGED <<last_id, handlers, reqChan>>
       ELSE /\ last_id' = id
            /\ handlers' = IF platform = "macos"
                             THEN MapInsert(handlers, id, [hotkey |-> enc, handler |-> h, ref |-> 0])
                             ELSE handlers
            /\ IF WorkerGone
                 THEN /\ Return(Client, "register_hotkey", h, "ChannelError", <<>>)
                      /\ UNCHANGED reqChan
                 ELSE /\ reqChan' = Append(reqChan, [kind |-> "RegisterHotkey", id |-> id,
                                                     hotkey |-> enc])
                      /\ call' = [call EXCEPT ![Client] =
                                    [NoCall EXCEPT !.op = "register_hotkey", !.hotkey = h, !.id = id]]
                      /\ pc' = [pc EXCEPT ![Client] = "reg_hotkey_wait"]
                      /\ ret' = [ret EXCEPT ![Client] = NoRet]
  /\ UNCHANGED <<aloofVars, installVars, respChan, workerVars>>

\* the rest of Listener::register_hotkey: recv, the handlers insert (windows,
\* on Ok) or remove (macos, on Err), the result
ClientRegisterReturn ==
  /\ pc[Client] = "reg_hotkey_wait"
  /\ respChan # <<>> \/ WorkerGone
  /\ LET h == call[Client].hotkey
         r == IF respChan = <<>> THEN "ChannelError"
              ELSE IF Head(respChan).kind = "RegisterHotkeyResult" THEN Head(respChan).result
              ELSE "Unknown"
     IN
     /\ handlers' = HandlersAfterReply(call[Client].id, ListenerHotkey(platform, h), h, r)
     /\ Return(Client, "register_hotkey", h, r, <<>>)
  /\ respChan' = IF respChan = <<>> THEN respChan ELSE Tail(respChan)
  /\ UNCHANGED <<aloofVars, installVars, last_id, reqChan, workerVars>>

\* Listener::unregister_hotkey up to the wait for the reply: the search, the
\* send, (windows) the handlers remove
ClientUnregister(h) ==
  /\ pc[Client] = "idle"
  /\ wpc # "unborn"
  /\ LET found == HandlerIds(ListenerHotkey(platform, h)) IN
     IF found = {}
       THEN /\ Return(Client, "unregister_hotkey", h, "HotkeyNotRegistered", <<>>)
            /\ UNCHANGED <<handlers, reqChan>>
       ELSE IF WorkerGone
         THEN /\ Return(Client, "unregister_hotkey", h, "ChannelError", <<>>)
              /\ UNCHANGED <<handlers, reqChan>>
       ELSE \E found_id \in found :
            /\ reqChan' = Append(reqChan, [kind |-> "UnregisterHotkey", id |-> found_id,
                                           hotkey |-> <<0, 0>>])
            /\ handlers' = IF platform = "windows" THEN MapRemove(handlers, found_id)
                                                   ELSE handlers
            /\ call' = [call EXCEPT ![Client] =
                          [NoCall EXCEPT !.op = "unregister_hotkey", !.hotkey = h,
                                         !.id = found_id]]
            /\ pc' = [pc EXCEPT ![Client] = "unreg_hotkey_wait"]
            /\ ret' = [ret EXCEPT ![Client] = NoRet]
  /\ UNCHANGED <<aloofVars, installVars, last_id, respChan, workerVars>>

\* the rest of Listener::unregister_hotkey: recv and the result
ClientUnregisterReturn ==
  /\ pc[Client] = "unreg_hotkey_wait"
  /\ respChan # <<>> \/ WorkerGone
  /\ LET r == IF respChan = <<>> THEN "ChannelError"
              ELSE IF Head(respChan).kind = "UnregisterHotkeyResult" THEN Head(respChan).result
              ELSE "Unknown"
     IN Return(Client, "unregister_hotkey", call[Client].hotkey, r, <<>>)
  /\ respChan' = IF respChan = <<>> THEN respChan ELSE Tail(respChan)
  /\ UNCHANGED <<aloofVars, installVars, last_id, handlers, reqChan, workerVars>>

\* Drop for Listener: send DropThread (the error of a failed send is printed);
\* the client has no Listener from here on
ClientDrop ==
  /\ pc[Client] = "idle"
  /\ wpc # "unborn"
  /\ reqChan' = IF WorkerGone THEN reqChan
                ELSE Append(reqChan, [kind |-> "DropThread", id |-> 0, hotkey |-> <<0, 0>>])
  /\ pc' = [pc EXCEPT ![Client] = "dropped"]
  /\ ret' = [ret EXCEPT ![Client] = NoRet]
  /\ UNCHANGED <<aloofVars, installVars, last_id, handlers, respChan, workerVars, call>>

\* Ok(HotkeyMessage::DropThread) in the worker loop: windows returns from the
\* thread; macos starts the loop over hotkey_map.lock().unwrap().values()
WorkerDropThread ==
  /\ wpc = "loop"
  /\ reqChan # <<>>
  /\ Head(reqChan).kind = "DropThread"
  /\ reqChan' = Tail(reqChan)
  /\ wpc' = IF platform = "windows" THEN "exited" ELSE "teardown"
  /\ visited' = {}
  /\ UNCHANGED <<aloofVars, event_handler_ref, last_id, handlers, respChan, wmsg, osBound,
                 osEvents, pc, call, ret>>

\* one turn of the DropThread loop: unregister_hotkey(handler_ref.0) for the
\* next entry of the handlers map, a failure is printed
WorkerTeardownUnregister ==
  /\ wpc = "teardown"
  /\ \E id \in (DOMAIN handlers) \ visited :
       /\ visited' = visited \cup {id}
       /\ \E out \in NativeUnregisterOutcomes(handlers[id].ref) :
            osBound' = IF out = "ok" THEN MapRemove(osBound, handlers[id].ref) ELSE osBound
  /\ UNCHANGED <<aloofVars, event_handler_ref, listenerVars, wpc, wmsg, osEvents, pc, call, ret>>

\* after the loop: uninstall_event_handler(event_handler_ref), the callback
\* box is freed, break, and the thread ends
WorkerTeardownEnd ==
  /\ wpc = "teardown"
  /\ visited = DOMAIN handlers
  /\ event_handler_ref' = "released"
  /\ wpc' = "exited"
  /\ UNCHANGED <<aloofVars, visited, listenerVars, wmsg, osBound, osEvents, pc, call, ret>>

ListenerNext ==
  \/ ClientNew
  \/ \E h \in Hotkeys : ClientRegister(h)
  \/ ClientRegisterReturn
  \/ \E h \in Hotkeys : ClientUnregister(h)
  \/ ClientUnregisterReturn
  \/ ClientDrop
  \/ WorkerInit
  \/ WorkerRegister
  \/ WorkerSetRef
  \/ WorkerUnregister
  \/ WorkerDropThread
  \/ WorkerTeardownUnregister
  \/ WorkerTeardownEnd

ListenerSpec == Init /\ [][ListenerNext]_vars

(* ------------------------------ properties ----------------------------- *)

\* thread t takes a step of its own in the position p
Leaves(t, p) == pc[t] = p /\ pc'[t] # p

\* C1: a register call that finds a registry entry for its Hotkey adds
\* (owner id, callback) to that owner table and nothing else, sends no request
\* to the worker, takes no native id, and goes on to push the Hotkey on the
\* owned list and return Ok
C1_SharedRegister ==
  [][\A t \in Threads :
       /\ (Leaves(t, "reg_lock") /\ call[t].hotkey \in DOMAIN GLOBAL_HOTKEY_MAP) =>
            /\ GLOBAL_HOTKEY_MAP' =
                 [GLOBAL_HOTKEY_MAP EXCEPT ![call[t].hotkey] =
                    MapInsert(@, mgrId[t], call[t].cb)]
            /\ UNCHANGED <<reqChan, respChan, last_id, handlers, osBound>>
            /\ pc'[t] = "reg_push"
       /\ Leaves(t, "reg_push") =>
            /\ ret'[t].op = "register"
            /\ ret'[t].hotkey = call[t].hotkey
            /\ ret'[t].result = "Ok"
            /\ registered_hotkeys'[t] = Append(registered_hotkeys[t], call[t].hotkey)
            /\ pc'[t] = "idle"
    ]_vars

\* C1 witness: both managers registered the same Hotkey, both calls returned
\* Ok, and a single native id was ever taken
C1_Witness ==
  \E h \in Hotkeys :
    /\ \A t \in Threads :
         /\ mgrLive[t]
         /\ is_registered(t, h)
         /\ ret[t].op = "register" /\ ret[t].hotkey = h /\ ret[t].result = "Ok"
    /\ h \in DOMAIN GLOBAL_HOTKEY_MAP
    /\ DOMAIN GLOBAL_HOTKEY_MAP[h] = {mgrId[t] : t \in Threads}
    /\ Cardinality(DOMAIN GLOBAL_HOTKEY_MAP[h]) >= 2
    /\ last_id = 1

\* C2: an unregister that reaches the owner table removes its own owner and
\* no other; with other owners left the entry stays and no request is sent to
\* the worker; as the last owner it removes the entry and asks the worker for
\* the native unregister of an id registered for this Hotkey's encoding; and
\* an entry disappears from the registry only in such a last-owner step
C2_LastOwnerUnbinds ==
  [][/\ \A t \in Threads :
          LET h == call[t].hotkey IN
          /\ (Leaves(t, "unreg_lock") /\ h \in DOMAIN GLOBAL_HOTKEY_MAP
                /\ mgrId[t] \in DOMAIN GLOBAL_HOTKEY_MAP[h]) =>
               IF Cardinality(DOMAIN GLOBAL_HOTKEY_MAP[h]) > 1
                 THEN /\ GLOBAL_HOTKEY_MAP' =
                           [GLOBAL_HOTKEY_MAP EXCEPT ![h] = MapRemove(@, mgrId[t])]
                      /\ pc'[t] \in {"idle", "all_next"}
                      /\ UNCHANGED <<reqChan, respChan, handlers, osBound, mapLock>>
                 ELSE /\ GLOBAL_HOTKEY_MAP' = MapRemove(GLOBAL_HOTKEY_MAP, h)
                      /\ pc'[t] = "unreg_find"
          /\ Leaves(t, "unreg_find") =>
               /\ Len(reqChan') = Len(reqChan) + 1
               /\ reqChan'[Len(reqChan')].kind = "UnregisterHotkey"
               /\ reqChan'[Len(reqChan')].id \in DOMAIN handlers
               /\ handlers[reqChan'[Len(reqChan')].id].hotkey = ListenerHotkey(platform, h)
     /\ \A h \in DOMAIN GLOBAL_HOTKEY_MAP :
          h \notin DOMAIN GLOBAL_HOTKEY_MAP' =>
            \E t \in Threads :
              /\ Leaves(t, "unreg_lock")
              /\ call[t].hotkey = h
              /\ DOMAIN GLOBAL_HOTKEY_MAP[h] = {mgrId[t]}
    ]_vars

\* C2 witness: one of two owners has unregistered and got Ok, the other still
\* owns the Hotkey, the entry and the handler are still there
C2_Witness ==
  \E t \in Threads, u \in Threads, h \in Hotkeys :
    /\ t # u
    /\ ret[t].op = "unregister" /\ ret[t].hotkey = h /\ ret[t].result = "Ok"
    /\ pc[u] = "idle" /\ is_registered(u, h)
    /\ h \in DOMAIN GLOBAL_HOTKEY_MAP
    /\ DOMAIN GLOBAL_HOTKEY_MAP[h] = {mgrId[u]}
    /\ HandlerIds(ListenerHotkey(platform, h)) # {}

InVacantArm(h) ==
  {t \in Threads : pc[t] \in {"reg_check", "reg_wait", "reg_post"} /\ call[t].hotkey = h}

\* C4: for each Hotkey at most one register call is in the Vacant arm (the
\* native registration) at a time, and none while the Hotkey has a registry
\* entry; at most one register request is on its way to the worker, and never
\* for the encoding of a Hotkey that has a registry entry
C4_OneNativeRegister ==
  /\ \A h \in Hotkeys :
       Cardinality(InVacantArm(h)) + (IF h \in DOMAIN GLOBAL_HOTKEY_MAP THEN 1 ELSE 0) <= 1
  /\ Cardinality({i \in 1..Len(reqChan) : reqChan[i].kind = "RegisterHotkey"}) <= 1
  /\ \A i \in 1..Len(reqChan) :
       reqChan[i].kind = "RegisterHotkey" =>
         \A h \in DOMAIN GLOBAL_HOTKEY_MAP : ListenerHotkey(platform, h) # reqChan[i].hotkey

\* C4 witness: one thread waits for the worker's reply to its native register
\* while another thread's register call for the same Hotkey waits for the lock
C4_Witness ==
  \E t \in Threads, u \in Threads :
    /\ t # u
    /\ pc[t] = "reg_wait"
    /\ pc[u] = "reg_lock"
    /\ call[t].hotkey = call[u].hotkey

\* thread t returns from the call op within one step of its start
ReturnsAtOnce(t, op) ==
  /\ pc[t] = "idle"
  /\ pc'[t] = "idle"
  /\ ret'[t] # ret[t]
  /\ ret'[t].op = op

\* everything but the caller's own ret
FrameUnchanged ==
  UNCHANGED <<ID_COUNTER, mgrLive, mgrId, registered_hotkeys, GLOBAL_HOTKEY_MAP, mapLock,
              listenerLock, last_id, handlers, handlersLock, reqChan, respChan, wpc,
              osBound, osEvents>>

\* C5: register for a Hotkey of the caller's owned list returns
\* HotkeyAlreadyRegistered in one step that changes nothing else, and a
\* register call that goes on to the registry is for a Hotkey not in the list
C5_AlreadyRegistered ==
  [][\A t \in Threads :
       /\ ReturnsAtOnce(t, "register") =>
            /\ ret'[t].result = "HotkeyAlreadyRegistered"
            /\ Contains(registered_hotkeys[t], ret'[t].hotkey)
            /\ FrameUnchanged
       /\ (pc[t] = "idle" /\ pc'[t] = "reg_lock") =>
            ~Contains(registered_hotkeys[t], call'[t].hotkey)
    ]_vars

\* C5 witness: HotkeyAlreadyRegistered was returned for a Hotkey the manager
\* owns and the registry holds its callback
C5_Witness ==
  \E t \in Threads :
    /\ ret[t].op = "register"
    /\ ret[t].result = "HotkeyAlreadyRegistered"
    /\ is_registered(t, ret[t].hotkey)
    /\ ret[t].hotkey \in DOMAIN GLOBAL_HOTKEY_MAP
    /\ mgrId[t] \in DOMAIN GLOBAL_HOTKEY_MAP[ret[t].hotkey]

\* C6: unregister for a Hotkey outside the caller's owned list returns
\* HotkeyNotRegistered in one step that changes nothing else, and an
\* unregister call that goes on to the registry is for a Hotkey of the list
C6_NotRegistered ==
  [][\A t \in Threads :
       /\ ReturnsAtOnce(t, "unregister") =>
            /\ ret'[t].result = "HotkeyNotRegistered"
            /\ ~Contains(registered_hotkeys[t], ret'[t].hotkey)
            /\ FrameUnchanged
       /\ (pc[t] = "idle" /\ pc'[t] = "unreg_lock") =>
            /\ Contains(registered_hotkeys[t], call'[t].hotkey)
            /\ ~Contains(registered_hotkeys'[t], call'[t].hotkey)
    ]_vars

\* C6 witness: HotkeyNotRegistered was returned to a manager for a Hotkey
\* that another manager owns
C6_Witness ==
  \E t \in Threads, u \in Threads :
    /\ t # u
    /\ ret[t].op = "unregister"
    /\ ret[t].result = "HotkeyNotRegistered"
    /\ is_registered(u, ret[t].hotkey)
    /\ ret[t].hotkey \in DOMAIN GLOBAL_HOTKEY_MAP
    /\ DOMAIN GLOBAL_HOTKEY_MAP[ret[t].hotkey] = {mgrId[u]}

\* one step of a manager being dropped, as C7 describes it; strict asks that
\* the native id of a Hotkey released as last owner is unbound at the OS
\* whatever the worker replied, otherwise only after the reply Ok
DropStep(t, strict) ==
  LET h == call[t].hotkey IN
  /\ (ret'[t] # ret[t] /\ ret'[t].op = "drop") =>
       /\ ~mgrLive'[t]
       /\ registered_hotkeys'[t] = <<>>
       /\ \A g \in DOMAIN GLOBAL_HOTKEY_MAP' : mgrId[t] \notin DOMAIN GLOBAL_HOTKEY_MAP'[g]
  /\ (Leaves(t, "unreg_lock") /\ call[t].outer = "drop") =>
       /\ h \in DOMAIN GLOBAL_HOTKEY_MAP
       /\ mgrId[t] \in DOMAIN GLOBAL_HOTKEY_MAP[h]
       /\ IF DOMAIN GLOBAL_HOTKEY_MAP[h] # {mgrId[t]}
            THEN /\ GLOBAL_HOTKEY_MAP' =
                      [GLOBAL_HOTKEY_MAP EXCEPT ![h] = MapRemove(@, mgrId[t])]
                 /\ UNCHANGED <<handlers, osBound, reqChan>>
            ELSE /\ GLOBAL_HOTKEY_MAP' = MapRemove(GLOBAL_HOTKEY_MAP, h)
                 /\ pc'[t] = "unreg_find"
  /\ (Leaves(t, "unreg_find") /\ call[t].outer = "drop") =>
       /\ Len(reqChan') = Len(reqChan) + 1
       /\ reqChan'[Len(reqChan')].kind = "UnregisterHotkey"
       /\ handlers[reqChan'[Len(reqChan')].id].hotkey = ListenerHotkey(platform, h)
  /\ (Leaves(t, "unreg_wait") /\ call[t].outer = "drop") =>
       /\ h \notin DOMAIN GLOBAL_HOTKEY_MAP'
       /\ (strict \/ Head(respChan).result = "Ok") => call[t].id \notin DOMAIN osBound'

C8_KeptOnFailure ==
  \A t \in Threads :
    (ret[t].op = "unregister" /\ ret[t].result \notin {"Ok", "HotkeyNotRegistered"}) =>
      Contains(registered_hotkeys[t], ret[t].hotkey)

\* the last result of a sequence of unregister results that is not Ok
LastFailure(attempts) ==
  LET failed == {i \in 1..Len(attempts) : attempts[i] # "Ok"} IN
  IF failed = {} THEN "Ok"
  ELSE attempts[CHOOSE i \in failed : \A j \in failed : j <= i]

\* C9: the result of unregister_all is the last failure among its unregister
\* attempts, Ok when none failed
C9_LastFailureReported ==
  \A t \in Threads :
    ret[t].op = "unregister_all" => ret[t].result = LastFailure(ret[t].attempts)

\* C10: when the reply to the native register is an error, register returns
\* it wrapped in System, the registry is left as it was with no entry for
\* the Hotkey, the owned list is unchanged and does not hold the Hotkey, and
\* neither the Listener's handlers nor the OS hold the id of the attempt
C10_RegisterFailureFrame ==
  [][\A t \in Threads :
       (Leaves(t, "reg_post") /\ call[t].reply # "Ok") =>
         /\ ret'[t].op = "register"
         /\ ret'[t].hotkey = call[t].hotkey
         /\ ret'[t].result = SystemError(call[t].reply)
         /\ pc'[t] = "idle"
         /\ UNCHANGED <<GLOBAL_HOTKEY_MAP, registered_hotkeys>>
         /\ call[t].hotkey \notin DOMAIN GLOBAL_HOTKEY_MAP'
         /\ ~Contains(registered_hotkeys'[t], call[t].hotkey)
         /\ call[t].id \notin DOMAIN handlers'
         /\ call[t].id \notin DOMAIN osBound'
         /\ mapLock' = NoThread /\ listenerLock' = NoThread
    ]_vars

\* C10 witness: register returned the native failure and nothing is
\* registered anywhere although a native id was used up
C10_Witness ==
  \E t \in Threads :
    /\ ret[t].op = "register"
    /\ ret[t].result = "System(BackendApiError)"
    /\ ~is_registered(t, ret[t].hotkey)
    /\ ret[t].hotkey \notin DOMAIN GLOBAL_HOTKEY_MAP
    /\ last_id >= 1
    /\ handlers = <<>>
    /\ osBound = <<>>

(* ------------------------ properties of the parser --------------------- *)

\* parse_hotkey has returned for hotkey_string
Parsed == ppc \in {"parsed", "reparsed"}

\* the pieces parse_hotkey looks at
Pieces == split(to_uppercase(hotkey_string))

\* a piece that is skipped as empty or taken as a modifier
NotAKeyToken(piece) ==
  trim(piece) = "" \/ ModifierOf(platform, trim(piece)) # NoName

\* the Key each piece resolves to: NoName for a piece that is no key token,
\* "?unknown" for a key token that is no key
TokenKeys(pieces) ==
  [i \in 1..Len(pieces) |->
     IF NotAKeyToken(pieces[i]) THEN NoName
     ELSE IF KeyOf(platform, Numbered(trim(pieces[i]))) = NoName THEN "?unknown"
     ELSE KeyOf(platform, Numbered(trim(pieces[i])))]

\* the key tokens that are no key
UnknownTokens(tk) == {i \in DOMAIN tk : tk[i] = "?unknown"}

\* the pieces that resolve to a Key an earlier piece resolved to
RepeatedTokens(tk) ==
  {i \in DOMAIN tk :
     tk[i] \notin {NoName, "?unknown"} /\ \E j \in 1..(i - 1) : tk[j] = tk[i]}

Least(S) == CHOOSE i \in S : \A j \in S : i <= j

\* the sequence s holds no value twice
NoRepeats(s) == \A i, j \in 1..Len(s) : s[i] = s[j] => i = j

\* the elements of a Vec
Range(s) == {s[i] : i \in 1..Len(s)}

\* C11: a Hotkey returned by parse_hotkey, displayed and parsed again, gives
\* Ok with an equal Hotkey, also when the Hotkey has two or more keys
C11_RoundTrip ==
  ppc = "reparsed" => parsed = ParseOk(shown)

\* the spellings C12 compares a parsed Hotkey with
ReferenceStrings == {"CTRL+SHIFT+P", "CTRL+P"}

\* C12: a parsed Hotkey is equal to the parsed reference Hotkey with the same
\* key list and the same set of modifiers, whatever the order and the number
\* of repetitions of its modifiers, so that is_registered of a manager owning
\* the one holds for the other and both are one key of the registry
C12_ModifiersAsSet ==
  \A r \in ReferenceStrings :
    LET a == parsed
        b == parse_hotkey(platform, r)
    IN (/\ Parsed /\ a.ok /\ b.ok
        /\ a.hotkey.keys = b.hotkey.keys
        /\ Range(a.hotkey.modifiers) = Range(b.hotkey.modifiers)) =>
         /\ a.hotkey = b.hotkey
         /\ Contains(<<b.hotkey>>, a.hotkey)
         /\ Cardinality({a.hotkey, b.hotkey}) = 1

\* what C13 says of one parse; strict asks for the duplicated-key error
\* whenever two pieces resolve to one Key, otherwise only when no unknown
\* piece stands before the second of them
NoDuplicateKey(strict) ==
  Parsed =>
    LET pieces == Pieces
        tk == TokenKeys(pieces)
        repeated == RepeatedTokens(tk)
    IN
    /\ parsed.ok => NoRepeats(parsed.hotkey.keys)
    /\ (/\ repeated # {}
        /\ strict \/ \A u \in UnknownTokens(tk) : u > Least(repeated)) =>
         parsed = ParseErr("duplicated key " \o pieces[Least(repeated)])

\* C13 (as amended): parse_hotkey never returns a Hotkey whose key list holds
\* a Key twice; when two pieces of the string resolve to the same Key, under
\* the same or different spellings, and no unknown piece stands before the
\* second of them, the result is InvalidHotkey("duplicated key <piece>") with
\* the second piece as it stands in the uppercased string
C13_NoDuplicateKey == NoDuplicateKey(FALSE)

\* C13 as stated: whenever two pieces resolve to the same Key the result is
\* the duplicated-key error
C13_AlwaysDuplicateError == NoDuplicateKey(TRUE)

\* C13 witness: two spellings of one Key, the second named in the error
C13_Witness ==
  /\ ppc = "parsed"
  /\ LET pieces == Pieces
         tk == TokenKeys(pieces)
     IN \E i \in RepeatedTokens(tk), j \in DOMAIN tk :
          /\ j < i
          /\ tk[j] = tk[i]
          /\ trim(pieces[j]) # trim(pieces[i])
  /\ ~parsed.ok
  /\ parsed.err = "duplicated key RETURN"

\* C14: parse_hotkey returns Ok only with a key list that is not empty, and a
\* string none of whose pieces is a key token (every piece is empty, white
\* space or a modifier) gives InvalidHotkey("hotkey has no key specified")
C14_NoKeySpecified ==
  Parsed =>
    /\ parsed.ok => Len(parsed.hotkey.keys) >= 1
    /\ (LET pieces == Pieces IN \A i \in 1..Len(pieces) : NotAKeyToken(pieces[i])) =>
         parsed = ParseErr("hotkey has no key specified")

\* C14 witness: a string of a modifier, white space and an empty piece was
\* refused for having no key
C14_Witness ==
  /\ ppc = "parsed"
  /\ LET pieces == Pieces IN
     /\ \E i \in 1..Len(pieces) : ModifierOf(platform, trim(pieces[i])) # NoName
     /\ \E i \in 1..Len(pieces) : pieces[i] = ""
     /\ \E i \in 1..Len(pieces) : pieces[i] = " "
  /\ parsed = ParseErr("hotkey has no key specified")

\* the number of times x is in the sequence s
Count(s, x) == Cardinality({i \in 1..Len(s) : s[i] = x})

\* C15: a string whose key token is a symbol of the shift conversions, with
\* or without SHIFT written before it, parses to the symbol's base key with
\* SHIFT exactly once among the modifiers; a plain punctuation token parses
\* to its key and adds no SHIFT
C15_ShiftedSymbols ==
  /\ \A s \in ShiftedSymbols :
       (Parsed /\ hotkey_string \in {s, "SHIFT+" \o s}) =>
         /\ parsed.ok
         /\ parsed.hotkey.keys = <<ShiftConversion(s)>>
         /\ Count(parsed.hotkey.modifiers, "SHIFT") = 1
  /\ \A s \in PlainPunctuation :
       /\ (Parsed /\ hotkey_string = s) =>
            parsed = ParseOk([modifiers |-> <<>>, keys |-> <<Alias(s)>>])
       /\ (Parsed /\ hotkey_string = "SHIFT+" \o s) =>
            parsed = ParseOk([modifiers |-> <<"SHIFT">>, keys |-> <<Alias(s)>>])

(* ------------------ properties of registry, worker and OS -------------- *)

\* no API call is in progress and the worker has nothing left to answer
Quiescent ==
  /\ \A t \in Threads : pc[t] = "idle"
  /\ reqChan = <<>>
  /\ respChan = <<>>
  /\ wpc = "loop"

\* the encodings registered with the OS
OSBoundEncodings == {osBound[i] : i \in DOMAIN osBound}

\* C16: while no register, unregister, unregister_all or drop is in
\* progress, every Hotkey with a registry entry is bound at the OS, every
\* binding the OS holds is the one of a Hotkey with a registry entry, and
\* every entry has an owner
C16_RegistryMatchesOS ==
  Quiescent =>
    /\ \A h \in DOMAIN GLOBAL_HOTKEY_MAP : ListenerHotkey(platform, h) \in OSBoundEncodings
    /\ \A i \in DOMAIN osBound :
         \E h \in DOMAIN GLOBAL_HOTKEY_MAP : ListenerHotkey(platform, h) = osBound[i]
    /\ \A h \in DOMAIN GLOBAL_HOTKEY_MAP : DOMAIN GLOBAL_HOTKEY_MAP[h] # {}

\* thread t takes the worker's reply to its unregister request, an error
UnregisterFailed(t) ==
  /\ Leaves(t, "unreg_wait")
  /\ Head(respChan).kind = "UnregisterHotkeyResult"
  /\ Head(respChan).result # "Ok"

\* C17: when the last owner's unregister gets an error from the native
\* unregister, the registry still has the entry of the Hotkey as the call
\* returns
C17_EntryKeptOnFailure ==
  [][\A t \in Threads :
       UnregisterFailed(t) => call[t].hotkey \in DOMAIN GLOBAL_HOTKEY_MAP'
    ]_vars

\* C18: when the native unregister reports a failure, the Listener's handlers
\* still map the native id to the hotkey's encoding as unregister_hotkey
\* returns BackendApiError
C18_HandlerKeptOnFailure ==
  [][\A t \in Threads :
       (UnregisterFailed(t) /\ Head(respChan).result = "BackendApiError") =>
         /\ call[t].id \in DOMAIN handlers'
         /\ handlers'[call[t].id].hotkey = ListenerHotkey(platform, call[t].hotkey)
    ]_vars

\* the worker takes a request of the given kind from the channel
WorkerTakes(kind) ==
  /\ wpc = "loop"
  /\ reqChan # <<>>
  /\ Head(reqChan).kind = kind
  /\ reqChan' = Tail(reqChan)
  /\ wpc' # "panic"

\* C19: the worker issues a native register only for an encoding that is not
\* bound at the OS, and a native unregister only for a native id that is
\* bound, so that per encoding the two alternate, starting with a register
C19_NativeLifecycle ==
  [][/\ WorkerTakes("RegisterHotkey") => Head(reqChan).hotkey \notin OSBoundEncodings
     /\ WorkerTakes("UnregisterHotkey") =>
          (IF platform = "windows" THEN Head(reqChan).id
                                   ELSE handlers[Head(reqChan).id].ref) \in DOMAIN osBound
    ]_vars

\* C20: the trigger dispatch runs the owner callbacks without holding the
\* GLOBAL_HOTKEY_MAP mutex, so a callback that calls register or unregister
\* gets the mutex: the dispatching thread is never inside a callback waiting
\* for the mutex it holds itself
C20_CallbacksOutsideLock ==
  dpc = "callback_lock" => mapLock # DispatchThread

(* ------------------ properties of the request/response channels -------- *)

\* the callers that sent a request and have not taken its reply yet
Waiting == {t \in Threads : pc[t] \in {"reg_wait", "unreg_remove", "unreg_wait"}}

\* the request a waiting caller sent, and the reply it is to get
RequestOf(t) == IF pc[t] = "reg_wait" THEN "RegisterHotkey" ELSE "UnregisterHotkey"
ReplyOf(t) == IF pc[t] = "reg_wait" THEN "RegisterHotkeyResult" ELSE "UnregisterHotkeyResult"

\* the caller/worker exchange as C21 describes it; strict asks that a call
\* which got past the Listener's own check returns only with a reply, else it
\* may also return ChannelError once the worker thread has ended
Synchronous(strict) ==
  /\ Cardinality(Waiting) <= 1
  /\ Len(reqChan) + Len(respChan) <= 1
  /\ (reqChan # <<>> \/ respChan # <<>>) => Waiting # {}
  /\ \A t \in Waiting :
       /\ reqChan # <<>> => Head(reqChan).kind = RequestOf(t) /\ Head(reqChan).id = call[t].id
       /\ respChan # <<>> => Head(respChan).kind = ReplyOf(t)
  /\ (wpc \in {"loop", "set_ref"} /\ Len(reqChan) + Len(respChan) = 1) =>
       \/ UNCHANGED <<reqChan, respChan>>
       \/ reqChan # <<>> /\ reqChan' = <<>> /\ respChan' = <<>> /\ wpc' = "set_ref"
       \/ reqChan # <<>> /\ reqChan' = <<>> /\ Len(respChan') = 1
       \/ respChan # <<>> /\ respChan' = <<>> /\ reqChan' = <<>>
  /\ (wpc = "set_ref" /\ wpc' # "set_ref") => Len(respChan') = 1
  /\ \A t \in Threads :
       /\ (Leaves(t, "reg_wait") \/ Leaves(t, "unreg_wait")) =>
            IF respChan # <<>>
              THEN /\ respChan' = <<>>
                   /\ Leaves(t, "reg_wait") => call'[t].reply = Head(respChan).result
              ELSE ~strict /\ WorkerGone
       /\ ((Leaves(t, "reg_check") \/ Leaves(t, "unreg_find")) /\ reqChan' = reqChan) =>
            \/ HandlerIds(ListenerHotkey(platform, call[t].hotkey)) # {} /\ pc[t] = "reg_check"
            \/ HandlerIds(ListenerHotkey(platform, call[t].hotkey)) = {} /\ pc[t] = "unreg_find"
            \/ ~strict /\ WorkerGone
       /\ ret'[t] # ret[t] => ret'[t].result # "System(Unknown)"
       /\ call'[t].reply # "Unknown"

\* C21 (as amended): one request at most is on its way, it is the request
\* of the one caller that waits, the worker answers it with one reply of the
\* matching kind, and the caller returns with that reply, never with Unknown;
\* only when the worker thread has ended does a call return ChannelError
\* without a reply
C21_Synchronous == [][Synchronous(FALSE)]_vars

\* C21 as stated: a caller returns from register_hotkey or unregister_hotkey
\* only after it received the reply to its own request
C21_AlwaysReplied == [][Synchronous(TRUE)]_vars

\* C21 witness: the worker's reply to an unregister request is in the
\* response channel for the caller that waits, while the other caller's
\* register call is held back
C21_Witness ==
  \E t \in Threads, u \in Threads :
    /\ t # u
    /\ pc[t] = "unreg_wait"
    /\ respChan # <<>>
    /\ Head(respChan).kind = "UnregisterHotkeyResult"
    /\ pc[u] = "reg_lock"

(* ------------------ properties of the managers' bookkeeping ------------ *)

\* manager of thread t is an owner of Hotkey h in the registry
Owns(t, h) == h \in DOMAIN GLOBAL_HOTKEY_MAP /\ mgrId[t] \in DOMAIN GLOBAL_HOTKEY_MAP[h]

\* C22: every Hotkey of a manager's owned list has a registry entry with the
\* manager's id in its owner table; an unregister that arrives at the match
\* on the registry entry finds the entry and its own id in it, and no thread
\* ever panicked
C22_OwnedListInRegistry ==
  \A t \in Threads :
    /\ \A i \in 1..Len(registered_hotkeys[t]) : Owns(t, registered_hotkeys[t][i])
    /\ pc[t] = "unreg_lock" => Owns(t, call[t].hotkey)
    /\ pc[t] # "panic"

\* C22 witness: a manager is at the match of unregister after the native
\* unregister asked for by the other manager has failed
C22_Witness ==
  \E t \in Threads, u \in Threads :
    /\ t # u
    /\ pc[t] = "unreg_lock"
    /\ ret[u].op = "unregister"
    /\ ret[u].result = "System(BackendApiError)"

(* ------------------ properties of the worker's end --------------------- *)

\* the worker thread ends in this step, having taken the DropThread request
EndsByDropThread ==
  /\ wpc' = "exited"
  /\ \/ wpc = "teardown"
     \/ wpc = "loop" /\ reqChan # <<>> /\ Head(reqChan).kind = "DropThread"

\* C23: the worker takes DropThread after every request sent before it; when
\* its thread ends, a native unregister has been issued for every native id
\* the OS still holds, the event-handler installation (where the target has
\* one) is released, and no request is left in the channel
C23_Teardown ==
  [][/\ (wpc = "loop" /\ wpc' \in {"teardown", "exited"}) =>
          /\ Head(reqChan).kind = "DropThread"
          /\ Len(reqChan) = 1
          /\ pc[Client] = "dropped"
     /\ EndsByDropThread =>
          /\ \A id \in DOMAIN osBound' : id \in visited'
          /\ platform = "macos" => event_handler_ref' = "released"
          /\ reqChan' = <<>>
    ]_vars

\* the macos worker gave up: install_event_handler returned null
InitFailed == event_handler_ref = "null"

\* C24: once the worker's initialization has failed the worker thread stays
\* ended, no request is taken and nothing is registered with the OS; a
\* register call does not wait for a reply that cannot come, returns an
\* error, and leaves neither a registry entry nor a mapping in the
\* Listener's handlers
C24_InitFailure ==
  InitFailed =>
    /\ wpc = "exited"
    /\ reqChan = <<>>
    /\ respChan = <<>>
    /\ osBound = <<>>
    /\ GLOBAL_HOTKEY_MAP = <<>>
    /\ \A t \in Threads :
         /\ ret[t].op = "register" => ret[t].result # "Ok"
         /\ registered_hotkeys[t] = <<>>
    /\ (\A t \in Threads : pc[t] \notin {"reg_wait", "reg_post"}) => handlers = <<>>

(* ------------------ properties of the owner ids ------------------------ *)

\* the (Hotkey, owner id) pairs of the registry
OwnerPairs == {<<h, o>> \in Hotkeys \X (0..MaxManagers) :
                 h \in DOMAIN GLOBAL_HOTKEY_MAP /\ o \in DOMAIN GLOBAL_HOTKEY_MAP[h]}

\* C25: ID_COUNTER never goes down and is above every id in use, a new
\* manager gets an id no manager had before, two managers alive at once have
\* different ids, and an owner's callback leaves an owner table or changes
\* only in a step of the manager with that id
C25_UniqueOwnerIds ==
  [][/\ ID_COUNTER' >= ID_COUNTER
     /\ \A t \in Threads : mgrLive[t] => mgrId[t] < ID_COUNTER
     /\ \A p \in OwnerPairs : p[2] < ID_COUNTER
     /\ \A t \in Threads :
          (~mgrLive[t] /\ mgrLive'[t]) => (mgrId'[t] >= ID_COUNTER /\ mgrId'[t] < ID_COUNTER')
     /\ \A t \in Threads, u \in Threads :
          (t # u /\ mgrLive[t] /\ mgrLive[u]) => mgrId[t] # mgrId[u]
     /\ \A p \in OwnerPairs :
          (p \notin OwnerPairs' \/ GLOBAL_HOTKEY_MAP'[p[1]][p[2]] # GLOBAL_HOTKEY_MAP[p[1]][p[2]]) =>
            \E t \in Threads : mgrLive[t] /\ mgrId[t] = p[2] /\ Leaves(t, "unreg_lock")
    ]_vars

\* C25 witness: two managers made on different threads own the same Hotkey
\* with different callbacks, side by side in its owner table
C25_Witness ==
  \E h \in DOMAIN GLOBAL_HOTKEY_MAP :
    /\ \A t \in Threads : mgrLive[t] /\ mgrId[t] \in DOMAIN GLOBAL_HOTKEY_MAP[h]
    /\ GLOBAL_HOTKEY_MAP[h][mgrId[1]] # GLOBAL_HOTKEY_MAP[h][mgrId[2]]

(* ------------------ properties of trigger delivery --------------------- *)

\* thread t is inside register or unregister between taking the registry
\* mutex for the native call and giving it back
InExchange(t) ==
  /\ pc[t] \in {"reg_check", "reg_wait", "reg_post", "unreg_find", "unreg_remove", "unreg_wait"}
  /\ mapLock = t

\* the dispatch path holds the handlers mutex and wants the registry mutex
DispatchWaits == dpc = "handler" /\ mapLock # NoThread

\* C26: when a trigger is delivered while a register or unregister call
\* holds the registry mutex for its exchange with the worker, the exchange
\* can go on (the caller or the worker has a step to take), so that the call
\* returns, gives the mutex back and the callbacks run: caller, worker and
\* dispatch never wait for one another
C26_NoDeadlock ==
  \A t \in Threads :
    (InExchange(t) /\ DispatchWaits) =>
      \/ ENABLED RegCheck(t)
      \/ ENABLED RegRecv(t)
      \/ ENABLED RegPost(t)
      \/ ENABLED UnregFind(t)
      \/ ENABLED UnregRemove(t)
      \/ ENABLED UnregRecv(t)
      \/ ENABLED ListenerNew
      \/ ENABLED WorkerInit
      \/ ENABLED WorkerRegister
      \/ ENABLED WorkerSetRef
      \/ ENABLED WorkerUnregister

(* ------------------ properties of registry and Listener ---------------- *)

\* no API call is in progress and the worker is between two requests, or
\* has ended
AtRest ==
  /\ \A t \in Threads : pc[t] = "idle"
  /\ reqChan = <<>>
  /\ respChan = <<>>
  /\ wpc \in {"unborn", "loop", "exited"}

\* the Listener's handlers and the registry hold the same encodings, one
\* handlers entry per registry entry
HandlersMatchRegistry ==
  /\ {handlers[i].hotkey : i \in DOMAIN handlers} =
       {ListenerHotkey(platform, h) : h \in DOMAIN GLOBAL_HOTKEY_MAP}
  /\ Cardinality(DOMAIN handlers) = Cardinality(DOMAIN GLOBAL_HOTKEY_MAP)

\* C27: at rest the Listener's handlers and the registry agree; a register
\* that found no registry entry passes the Listener's duplicate check, and an
\* unregister of a last owner finds the native id of its Hotkey
C27_RegistryListenerAgree ==
  [][/\ AtRest' => HandlersMatchRegistry'
     /\ \A t \in Threads :
          /\ Leaves(t, "reg_check") =>
               HandlerIds(ListenerHotkey(platform, call[t].hotkey)) = {}
          /\ Leaves(t, "unreg_find") =>
               HandlerIds(ListenerHotkey(platform, call[t].hotkey)) # {}
    ]_vars

(* ------------------ properties of ownership ---------------------------- *)

\* the registry's pairs have their managers; midcall tells whether a manager
\* that is between the registry and its owned list, inside register or
\* unregister of the Hotkey, counts as having it
OwnersExist(midcall) ==
  \A p \in OwnerPairs :
    \E t \in Threads :
      /\ mgrLive[t]
      /\ mgrId[t] = p[2]
      /\ \/ Contains(registered_hotkeys[t], p[1])
         \/ midcall /\ pc[t] \in {"reg_push", "unreg_lock"} /\ call[t].hotkey = p[1]

\* thread t has returned from unregister_all or from the drop of its manager
ReleasedAll(t) == pc[t] = "idle" /\ ret[t].op \in {"unregister_all", "drop"}

\* a manager that released everything has an empty owned list and its id in
\* no owner table, whatever the single unregisters returned
NothingKept ==
  \A t \in Threads :
    ReleasedAll(t) =>
      /\ registered_hotkeys[t] = <<>>
      /\ \A p \in OwnerPairs : p[2] # mgrId[t]
      /\ ret[t].op = "drop" => ~mgrLive[t]

\* C28 (as amended): every (Hotkey, owner id) pair of the registry is the
\* pair of a live manager that has the Hotkey in its owned list, or is inside
\* register between the insert into the owner table and the push on the
\* list, or inside unregister between the removal from the list and the
\* removal from the owner table; and after unregister_all or drop nothing
\* is kept
C28_NoOrphanedOwners == OwnersExist(TRUE) /\ NothingKept

\* C28 as stated: in every reachable state the manager has the Hotkey of
\* each of its pairs in its owned list
C28_AlwaysInOwnedList == OwnersExist(FALSE) /\ NothingKept

\* C28 witness: unregister_all has returned after a failed native
\* unregister, and the registry holds a pair of the other manager
C28_Witness ==
  \E t \in Threads, u \in Threads :
    /\ t # u
    /\ ReleasedAll(t)
    /\ ret[t].op = "unregister_all"
    /\ Contains(ret[t].attempts, "System(BackendApiError)")
    /\ \E p \in OwnerPairs : p[2] = mgrId[u] /\ Contains(registered_hotkeys[u], p[1])

(* ------------------ properties of the native encoding ------------------ *)

\* the callers inside Listener::register_hotkey or unregister_hotkey
InListener ==
  {t \in Threads : pc[t] \in {"reg_check", "reg_wait", "reg_post",
                               "unreg_find", "unreg_remove", "unreg_wait"}}

\* the Hotkeys the Listener was handed, each with the encoding made of it:
\* those of the handlers map and those of the calls in progress
Encoded ==
  {<<handlers[i].handler, handlers[i].hotkey>> : i \in DOMAIN handlers}
    \cup {<<call[t].hotkey, ListenerHotkey(platform, call[t].hotkey)>> : t \in InListener}

\* C29: Hotkeys that are not equal never have the same native encoding
\* (modifiers_as_flag(), keys_as_flag())
C29_EncodingInjective ==
  \A a \in Encoded, b \in Encoded : a[1] # b[1] => a[2] # b[2]

====
